---- MODULE Spec2Model ----
(***************************************************************************)
(* Batch object operations and archive-link issuance of                    *)
(* service/explorer/objects.go: the handlers Archive, Delete, Move, Copy   *)
(* and Rename, the filesystem delegate they call, the signed URL and the   *)
(* keyed-expiry cache that Archive writes.                                 *)
(*                                                                         *)
(* Go values are modelled as follows.  A nil pointer, a nil error or an    *)
(* absent result is the empty sequence << >>, a present one is a one       *)
(* element sequence.  []uint is a sequence of naturals.  A Response is the *)
(* record [code, data, msg].  A *url.URL is a record of its parts.         *)
(***************************************************************************)
EXTENDS Integers, Sequences, FiniteSets, TLC

(***************************************************************************)
(* Bounds of the model.                                                    *)
(***************************************************************************)
\* number of Archive requests that may be in flight together
MaxReqs == 2
\* longest dirs / items list of a request
MaxSel == 2
\* object ids are 1..MaxId
MaxId == 2
\* number of clock advances in a behaviour
MaxTicks == 2
\* clock readings per second: the clock is finer than the Unix time in seconds
Resolution == 2

(***************************************************************************)
(* Program constants.                                                      *)
(***************************************************************************)
\* util.RandStringRunes(16)
TokenLen == 16
\* time.Now().Unix()+30
SignTTL == 30
\* cache.Set(..., 30)
CacheTTL == 30

\* the codes of pkg/serializer that the handlers pass to serializer.Err; the
\* properties rely only on their being distinct and different from 0, the
\* Code of a successful Response
CodeOK == 0
CodeNotSet == -1
CodeParamErr == 40001
CodePolicyNotAllowed == 40006
CodeGroupNotAllowed == 40007
CodeIOFailed == 50004

Reqs == 1..MaxReqs
Ids == 1..MaxId

Nil == << >>

\* all []uint values of length at most n
RECURSIVE SeqsUpTo(_, _)
SeqsUpTo(S, n) ==
    IF n = 0 THEN {<< >>}
    ELSE LET shorter == SeqsUpTo(S, n - 1)
         IN  shorter \cup {Append(s, x) : s \in {t \in shorter : Len(t) = n - 1}, x \in S}

IdLists == SeqsUpTo(Ids, MaxSel)

\* ItemService{Items, Dirs}
ItemService == [Items : IdLists, Dirs : IdLists]

\* ItemMoveService{SrcDir, Src, Dst} and ItemRenameService{Src, NewName}
Paths == {"/", "/docs"}
Names == {"report.pdf", "a"}
ItemMoveService == [SrcDir : Paths, Src : ItemService, Dst : Paths]
ItemRenameService == [Src : ItemService, NewName : Names]

\* the selection the Archive requests carry
ArchiveServices == {[Items |-> <<2>>, Dirs |-> <<1>>]}

(***************************************************************************)
(* serializer.Response, serializer.Err, serializer.ParamErr                *)
(***************************************************************************)
Err(errCode, msg) == [code |-> errCode, data |-> Nil, msg |-> msg]

ParamErr(msg) == Err(CodeParamErr, msg)

\* messages of the handlers (the source's literals, in English)
MsgGroupNotAllowed == "group cannot perform this operation"
MsgCompressFailed == "cannot create archive file"
MsgSiteURL == "cannot parse site URL"
MsgCacheFailed == "cannot write cache"
MsgCopyOne == "can only copy one object"
MsgRenameOne == "can only operate on one object"

\* error texts a collaborator may return
FsErrors == {"unknown policy type"}
DelegateErrors == {"object not exist", "path not exist"}

(***************************************************************************)
(* filesystem.NewFileSystemFromContext(c): an error, or a file system      *)
(* carrying the acting user with the group's ArchiveDownloadEnabled option.*)
(***************************************************************************)
FileSystem(enabled) ==
    [User |-> [Group |-> [OptionsSerialized |-> [ArchiveDownloadEnabled |-> enabled]]]]

NewFileSystemFromContext ==
    {[fs |-> <<FileSystem(b)>>, err |-> Nil] : b \in BOOLEAN}
        \cup {[fs |-> Nil, err |-> <<e>>] : e \in FsErrors}

GroupCheckSkipped(fs) == TRUE

ArchiveDownloadEnabled(fs) == fs.User.Group.OptionsSerialized.ArchiveDownloadEnabled

(***************************************************************************)
(* util.RandStringRunes(n): strings of n runes.  The model draws from the  *)
(* strings made of one repeated rune.                                      *)
(***************************************************************************)
Runes == {"a", "b"}

RECURSIVE Repeat(_, _)
Repeat(ch, n) == IF n = 0 THEN "" ELSE ch \o Repeat(ch, n - 1)

RandStringRunes(n) == {Repeat(ch, n) : ch \in Runes}

(***************************************************************************)
(* model.GetSettingByName("siteURL") and url.Parse                         *)
(***************************************************************************)
SiteURLSettings == {"https://cloudreve.example", "://malformed"}

UrlParse(s) ==
    IF s = "://malformed"
    THEN [url |-> Nil, err |-> <<"missing protocol scheme">>]
    ELSE [url |-> <<[base |-> s, path |-> << >>, query |-> Nil]>>, err |-> Nil]

(***************************************************************************)
(* fmt.Sprintf("/api/v3/file/archive/%s/archive.zip", zipID), as the list  *)
(* of path segments.                                                       *)
(***************************************************************************)
ArchivePath(zipID) == <<"api", "v3", "file", "archive", zipID, "archive.zip">>

\* the token a served URL carries: the segment after "archive"
TokenOf(u) == u.path[5]

(***************************************************************************)
(* auth.SignURI(uri, expires): the URI with the signature over (path,      *)
(* expires) in its query, or nil and an error.                             *)
(***************************************************************************)
SignURI(path, expires, ok) ==
    IF ok
    THEN [uri |-> <<[base |-> "", path |-> path,
                     query |-> <<[expires |-> expires, sign |-> <<path, expires>>]>>]>>,
          err |-> Nil]
    ELSE [uri |-> Nil, err |-> <<"invalid URI">>]

\* siteURL.ResolveReference(ref): the reference's path and query on the base
ResolveReference(site, ref) == [base |-> site.base, path |-> ref.path, query |-> ref.query]

(***************************************************************************)
(* pkg/cache: a keyed store whose entries carry their own expiry.          *)
(***************************************************************************)
EmptyCache == [k \in {} |-> 0]

\* the entry lives ttl seconds from the instant t of the write
CacheSet(c, key, value, ttl, t) ==
    [k \in DOMAIN c \cup {key} |->
        IF k = key THEN [value |-> value, expires |-> t + ttl * Resolution] ELSE c[k]]

CacheGet(c, key) == IF key \in DOMAIN c THEN <<c[key].value>> ELSE Nil

\* the entries still alive at time t
Purge(c, t) == [k \in {j \in DOMAIN c : t < c[j].expires} |-> c[k]]

\* "archive_"+zipID, the key Archive writes
CacheKeyNoToken(zipID) == "archive_"

CacheKey(zipID) == "archive_" \o zipID

\* the URL-serving side resolves the token of a request path to the archive
ArchiveLookup(c, token) == CacheGet(c, "archive_" \o token)

\* the path fs.Compress hands back for the request's archive
ZipFileOf(r) == "/tmp/archive_" \o ToString(r) \o ".zip"

(***************************************************************************)
(* State.                                                                  *)
(***************************************************************************)
VARIABLES
    pc,          \* Archive: where each request stands
    service,     \* Archive: the receiver, << >> before the request arrives
    fsys,        \* Archive: result of NewFileSystemFromContext
    zipFile,     \* Archive: local zipFile ("" until set)
    zipID,       \* Archive: local zipID ("" until set)
    finalURL,    \* Archive: the resolved signed URL, Nil until built
    resp,        \* Archive: the Response returned, Nil until returned
    calls,       \* Archive: the delegate calls the request made
    wroteAt,     \* Archive: clock at the request's successful cache.Set, -1 if none
    cancelledAt, \* Archive: pc at which the request's context was cancelled
    cache,       \* the ephemeral cache
    now,         \* the clock, in readings of 1/Resolution second
    ticks,       \* clock advances so far
    last         \* the last Delete / Move / Copy / Rename handled

vars == <<pc, service, fsys, zipFile, zipID, finalURL, resp, calls, wroteAt,
          cancelledAt, cache, now, ticks, last>>

archVars == <<pc, service, fsys, zipFile, zipID, finalURL, resp, calls, wroteAt,
              cancelledAt, cache>>

NoRequest ==
    [op |-> "none", request |-> Nil, fsErr |-> Nil, delegateErr |-> Nil,
     calls |-> << >>, resp |-> Nil]

Init ==
    /\ pc = [r \in Reqs |-> "idle"]
    /\ service = [r \in Reqs |-> Nil]
    /\ fsys = [r \in Reqs |-> Nil]
    /\ zipFile = [r \in Reqs |-> ""]
    /\ zipID = [r \in Reqs |-> ""]
    /\ finalURL = [r \in Reqs |-> Nil]
    /\ resp = [r \in Reqs |-> Nil]
    /\ calls = [r \in Reqs |-> << >>]
    /\ wroteAt = [r \in Reqs |-> -1]
    /\ cancelledAt = [r \in Reqs |-> "none"]
    /\ cache = EmptyCache
    /\ now = 0
    /\ ticks = 0
    /\ last = NoRequest

(***************************************************************************)
(* ItemService.Archive, in the steps between which other requests, the     *)
(* clock and a cancellation can take place.                                *)
(***************************************************************************)
\* the request arrives; file system construction and the group check
ArchiveBegin(r) ==
    /\ pc[r] = "idle"
    /\ \E s \in ArchiveServices, res \in NewFileSystemFromContext :
        /\ service' = [service EXCEPT ![r] = <<s>>]
        /\ fsys' = [fsys EXCEPT ![r] = res.fs]
        /\ IF res.err # Nil
           THEN /\ resp' = [resp EXCEPT ![r] = <<Err(CodePolicyNotAllowed, res.err[1])>>]
                /\ pc' = [pc EXCEPT ![r] = "done"]
           ELSE IF ~ArchiveDownloadEnabled(res.fs[1])
           THEN /\ resp' = [resp EXCEPT ![r] = <<Err(CodeGroupNotAllowed, MsgGroupNotAllowed)>>]
                /\ pc' = [pc EXCEPT ![r] = "done"]
           ELSE /\ resp' = resp
                /\ pc' = [pc EXCEPT ![r] = "compress"]
    /\ UNCHANGED <<zipFile, zipID, finalURL, calls, wroteAt, cancelledAt, cache,
                   now, ticks, last>>

\* the context handed to fs.Compress: the request's, with its cancellation
BackgroundCtx(r) == "none"

CompressCtx(r) == cancelledAt[r]

\* fs.Compress(ctx, dirs, items): a delegate that honours the context fails
\* once the context is cancelled, and may fail anyway
Compress(ctx, r) ==
    {[zipFile |-> "", err |-> <<"compress failed">>]}
        \cup (IF ctx = "none"
              THEN {[zipFile |-> ZipFileOf(r), err |-> Nil]}
              ELSE {})

ArchiveCompress(r) ==
    /\ pc[r] = "compress"
    /\ calls' = [calls EXCEPT ![r] =
                    Append(@, [op |-> "compress", dirs |-> service[r][1].Dirs,
                               items |-> service[r][1].Items])]
    /\ \E res \in Compress(CompressCtx(r), r) :
        IF res.err # Nil
        THEN /\ resp' = [resp EXCEPT ![r] = <<Err(CodeNotSet, MsgCompressFailed)>>]
             /\ pc' = [pc EXCEPT ![r] = "done"]
             /\ zipFile' = zipFile
        ELSE /\ zipFile' = [zipFile EXCEPT ![r] = res.zipFile]
             /\ pc' = [pc EXCEPT ![r] = "sign"]
             /\ resp' = resp
    /\ UNCHANGED <<service, fsys, zipID, finalURL, wroteAt, cancelledAt, cache,
                   now, ticks, last>>

\* the Response to a site URL that does not parse
SiteURLErrorAsPolicy == Err(CodePolicyNotAllowed, MsgSiteURL)

SiteURLError == Err(CodeNotSet, MsgSiteURL)

\* zipID := util.RandStringRunes(16)
NewZipIDShort == RandStringRunes(TokenLen - 1)

NewZipID == RandStringRunes(TokenLen)

\* time.Now().Unix(): the clock reading t in whole seconds
Unix(t) == t \div Resolution

\* time.Now().Unix()+30
SignExpiresLate(t) == Unix(t) + SignTTL + 1

SignExpires(t) == Unix(t) + SignTTL

\* url.Parse of the site URL, the random zipID, auth.SignURI (its error is
\* dropped) and ResolveReference, which dereferences the signed URI
ArchiveSign(r) ==
    /\ pc[r] = "sign"
    /\ \E setting \in SiteURLSettings, id \in NewZipID, signOK \in BOOLEAN :
        LET site == UrlParse(setting)
            signed == SignURI(ArchivePath(id), SignExpires(now), signOK)
        IN  IF site.err # Nil
            THEN /\ resp' = [resp EXCEPT ![r] = <<SiteURLError>>]
                 /\ pc' = [pc EXCEPT ![r] = "done"]
                 /\ UNCHANGED <<zipID, finalURL>>
            ELSE /\ zipID' = [zipID EXCEPT ![r] = id]
                 /\ resp' = resp
                 /\ IF signed.uri = Nil
                    THEN /\ pc' = [pc EXCEPT ![r] = "panicked"]
                         /\ finalURL' = finalURL
                    ELSE /\ finalURL' = [finalURL EXCEPT ![r] =
                                            <<ResolveReference(site.url[1], signed.uri[1])>>]
                         /\ pc' = [pc EXCEPT ![r] = "cache"]
    /\ UNCHANGED <<service, fsys, zipFile, calls, wroteAt, cancelledAt, cache,
                   now, ticks, last>>

\* what cache.Set returns: nil, or an error with nothing stored
CacheSetResults == {Nil, <<"cache unavailable">>}

\* the Response after cache.Set returned err
CacheSetResponseIgnoringErr(err, url) == [code |-> CodeOK, data |-> url, msg |-> ""]

CacheSetResponse(err, url) ==
    IF err # Nil
    THEN Err(CodeIOFailed, MsgCacheFailed)
    ELSE [code |-> CodeOK, data |-> url, msg |-> ""]

\* cache.Set("archive_"+zipID, zipFile, 30): the entry is in the cache, for
\* every request to see, before Archive returns; an error is returned at once
ArchiveCacheSet(r) ==
    /\ pc[r] = "cache"
    /\ \E err \in CacheSetResults :
        IF err = Nil
        THEN /\ cache' = CacheSet(cache, CacheKey(zipID[r]), zipFile[r], CacheTTL, now)
             /\ wroteAt' = [wroteAt EXCEPT ![r] = now]
             /\ pc' = [pc EXCEPT ![r] = "return"]
             /\ resp' = resp
        ELSE /\ resp' = [resp EXCEPT ![r] = <<CacheSetResponse(err, finalURL[r])>>]
             /\ pc' = [pc EXCEPT ![r] = "done"]
             /\ UNCHANGED <<cache, wroteAt>>
    /\ UNCHANGED <<service, fsys, zipFile, zipID, finalURL, calls, cancelledAt,
                   now, ticks, last>>

\* return serializer.Response{Code: 0, Data: finalURL}
ArchiveReturn(r) ==
    /\ pc[r] = "return"
    /\ resp' = [resp EXCEPT ![r] = <<CacheSetResponse(Nil, finalURL[r])>>]
    /\ pc' = [pc EXCEPT ![r] = "done"]
    /\ UNCHANGED <<service, fsys, zipFile, zipID, finalURL, calls, wroteAt,
                   cancelledAt, cache, now, ticks, last>>

\* the enclosing request's context is cancelled while Archive runs
Cancel(r) ==
    /\ pc[r] \in {"compress", "sign", "cache", "return"}
    /\ cancelledAt[r] = "none"
    /\ cancelledAt' = [cancelledAt EXCEPT ![r] = pc[r]]
    /\ UNCHANGED <<pc, service, fsys, zipFile, zipID, finalURL, resp, calls, wroteAt,
                   cache, now, ticks, last>>

\* time passes; the cache drops the entries whose time is up
TickSteps == {1, CacheTTL * Resolution - 1}

Tick ==
    /\ ticks < MaxTicks
    /\ \E d \in TickSteps :
        /\ now' = now + d
        /\ cache' = Purge(cache, now + d)
    /\ ticks' = ticks + 1
    /\ UNCHANGED <<pc, service, fsys, zipFile, zipID, finalURL, resp, calls, wroteAt,
                   cancelledAt, last>>

(***************************************************************************)
(* Delete, Move, Copy and Rename.  Each handler is a function of the       *)
(* request, of what NewFileSystemFromContext returns and of the error the  *)
(* delegate returns (Nil for none); it yields the delegate calls made and  *)
(* the Response.                                                           *)
(***************************************************************************)
OK == [code |-> CodeOK, data |-> Nil, msg |-> ""]

DelegateResults == {Nil} \cup {<<e>> : e \in DelegateErrors}

\* the shared tail of the four handlers: construct the file system, call the
\* delegate, map its error
Delegate(call, fsRes, delErr) ==
    IF fsRes.err # Nil
    THEN [calls |-> << >>, resp |-> Err(CodePolicyNotAllowed, fsRes.err[1])]
    ELSE [calls |-> <<call>>,
          resp |-> IF delErr # Nil THEN Err(CodeNotSet, delErr[1]) ELSE OK]

DeleteHandler(svc, fsRes, delErr) ==
    Delegate([op |-> "Delete", dirs |-> svc.Dirs, items |-> svc.Items], fsRes, delErr)

MoveHandlerSwapped(svc, fsRes, delErr) ==
    Delegate([op |-> "Move", dirs |-> svc.Src.Dirs, items |-> svc.Src.Items,
              src |-> svc.Dst, dst |-> svc.SrcDir], fsRes, delErr)

MoveHandler(svc, fsRes, delErr) ==
    Delegate([op |-> "Move", dirs |-> svc.Src.Dirs, items |-> svc.Src.Items,
              src |-> svc.SrcDir, dst |-> svc.Dst], fsRes, delErr)

CopyHandler(svc, fsRes, delErr) ==
    IF Len(svc.Src.Items) + Len(svc.Src.Dirs) > 1
    THEN [calls |-> << >>, resp |-> ParamErr(MsgCopyOne)]
    ELSE Delegate([op |-> "Copy", dirs |-> svc.Src.Dirs, items |-> svc.Src.Items,
                   src |-> svc.SrcDir, dst |-> svc.Dst], fsRes, delErr)

RenameHandler(svc, fsRes, delErr) ==
    IF Len(svc.Src.Items) + Len(svc.Src.Dirs) > 1
    THEN [calls |-> << >>, resp |-> ParamErr(MsgRenameOne)]
    ELSE Delegate([op |-> "Rename", dirs |-> svc.Src.Dirs, items |-> svc.Src.Items,
                   new |-> svc.NewName], fsRes, delErr)

\* a request waiting for its handler
Pending(op, svc) ==
    [op |-> op, request |-> <<svc>>, fsErr |-> Nil, delegateErr |-> Nil,
     calls |-> << >>, resp |-> Nil]

\* the handler has run: what the collaborators returned, the calls, the Response
Handled(h, fsRes, delErr) ==
    [last EXCEPT !.fsErr = fsRes.err,
                 !.delegateErr = IF h.calls = << >> THEN Nil ELSE delErr,
                 !.calls = h.calls,
                 !.resp = <<h.resp>>]

Delete ==
    /\ last.op = "Delete" /\ last.resp = Nil
    /\ \E fsRes \in NewFileSystemFromContext, delErr \in DelegateResults :
        last' = Handled(DeleteHandler(last.request[1], fsRes, delErr), fsRes, delErr)
    /\ UNCHANGED <<archVars, now, ticks>>

Move ==
    /\ last.op = "Move" /\ last.resp = Nil
    /\ \E fsRes \in NewFileSystemFromContext, delErr \in DelegateResults :
        last' = Handled(MoveHandler(last.request[1], fsRes, delErr), fsRes, delErr)
    /\ UNCHANGED <<archVars, now, ticks>>

Copy ==
    /\ last.op = "Copy" /\ last.resp = Nil
    /\ \E fsRes \in NewFileSystemFromContext, delErr \in DelegateResults :
        last' = Handled(CopyHandler(last.request[1], fsRes, delErr), fsRes, delErr)
    /\ UNCHANGED <<archVars, now, ticks>>

Rename ==
    /\ last.op = "Rename" /\ last.resp = Nil
    /\ \E fsRes \in NewFileSystemFromContext, delErr \in DelegateResults :
        last' = Handled(RenameHandler(last.request[1], fsRes, delErr), fsRes, delErr)
    /\ UNCHANGED <<archVars, now, ticks>>

(***************************************************************************)
(* Specifications.                                                         *)
(*   Spec       concurrent Archive requests and their cancellation         *)
(*   SpecClock  concurrent Archive requests while time passes              *)
(*   SpecBatch  one Delete / Move / Copy / Rename request, any input       *)
(***************************************************************************)
ArchiveStep(r) ==
    \/ ArchiveBegin(r)
    \/ ArchiveCompress(r)
    \/ ArchiveSign(r)
    \/ ArchiveCacheSet(r)
    \/ ArchiveReturn(r)

Next ==
    \/ \E r \in Reqs : ArchiveStep(r)
    \/ \E r \in Reqs : Cancel(r)

Spec == Init /\ [][Next]_vars

NextClock ==
    \/ \E r \in Reqs : ArchiveStep(r)
    \/ Tick

SpecClock == Init /\ [][NextClock]_vars

InitBatch ==
    /\ pc = [r \in Reqs |-> "idle"]
    /\ service = [r \in Reqs |-> Nil]
    /\ fsys = [r \in Reqs |-> Nil]
    /\ zipFile = [r \in Reqs |-> ""]
    /\ zipID = [r \in Reqs |-> ""]
    /\ finalURL = [r \in Reqs |-> Nil]
    /\ resp = [r \in Reqs |-> Nil]
    /\ calls = [r \in Reqs |-> << >>]
    /\ wroteAt = [r \in Reqs |-> -1]
    /\ cancelledAt = [r \in Reqs |-> "none"]
    /\ cache = EmptyCache
    /\ now = 0
    /\ ticks = 0
    /\ last \in {Pending("Delete", s) : s \in ItemService}
                 \cup {Pending("Move", s) : s \in ItemMoveService}
                 \cup {Pending("Copy", s) : s \in ItemMoveService}
                 \cup {Pending("Rename", s) : s \in ItemRenameService}

NextBatch == Delete \/ Move \/ Copy \/ Rename

SpecBatch == InitBatch /\ [][NextBatch]_vars

(***************************************************************************)
(* Vocabulary of the properties.                                           *)
(***************************************************************************)
Returned(r) == resp[r] # Nil
Response(r) == resp[r][1]
Success(r) == Returned(r) /\ Response(r).code = CodeOK
Failed(r) == Returned(r) /\ Response(r).code # CodeOK
\* the URL a successful Archive returned, its token and its expiry
DeliveredURL(r) == Response(r).data[1]
DeliveredToken(r) == TokenOf(DeliveredURL(r))
UrlExpiry(r) == DeliveredURL(r).query[1].expires
\* the URL's expiry, a Unix time in seconds, has not been reached
UrlLive(r) == Success(r) /\ Unix(now) < UrlExpiry(r)
\* the acting user's group may not download archives
FlagDisabled(r) ==
    fsys[r] # Nil /\ ~fsys[r][1].User.Group.OptionsSerialized.ArchiveDownloadEnabled
\* how an Archive request failed
FsFailed(r) == pc[r] = "done" /\ fsys[r] = Nil
CompressFailed(r) == pc[r] = "done" /\ calls[r] # << >> /\ zipFile[r] = ""
UrlFailed(r) == pc[r] = "done" /\ zipFile[r] # "" /\ zipID[r] = ""
SignFailed(r) == pc[r] = "panicked"
CacheWriteFailed(r) == pc[r] = "done" /\ finalURL[r] # Nil /\ wroteAt[r] = -1
\* the request's cache.Set succeeded
Wrote(r) == wroteAt[r] >= 0
\* no other request that wrote the cache drew the request's token
TokenUnshared(r) == \A q \in Reqs \ {r} : Wrote(q) => zipID[q] # zipID[r]
\* the entry the request wrote has not reached its expiry
EntryLive(r) == Success(r) /\ now < wroteAt[r] + CacheTTL * Resolution
\* the delivered URL's token leads to the request's own archive
Resolves(r) == ArchiveLookup(cache, DeliveredToken(r)) = <<zipFile[r]>>
\* number of targets of a selection
Count(s) == Len(s.Dirs) + Len(s.Items)
BatchHandled == last.resp # Nil

(***************************************************************************)
(* C1.  Copy and Rename, given a selection whose number of targets is not  *)
(* exactly 1 (0 targets included), return ParameterError and never call    *)
(* the delegate.  The handlers test "> 1", so the empty selection passes.  *)
(***************************************************************************)
C1_NotSingleTargetRejected ==
    (BatchHandled /\ last.op \in {"Copy", "Rename"} /\ Count(last.request[1].Src) # 1)
        => (last.resp[1].code = CodeParamErr /\ last.calls = << >>)

(***************************************************************************)
(* C2.  When the acting user's group has archive download disabled,        *)
(* Archive returns the permission error, a code no other Archive failure   *)
(* carries, and the request calls no compress, signs no URL and writes no  *)
(* cache entry.                                                            *)
(***************************************************************************)
C2_DisabledGroupDenied ==
    \A r \in Reqs :
        /\ FlagDisabled(r) =>
            /\ resp[r] = <<Err(CodeGroupNotAllowed, MsgGroupNotAllowed)>>
            /\ calls[r] = << >>
            /\ zipID[r] = "" /\ finalURL[r] = Nil
            /\ wroteAt[r] = -1
        /\ (Failed(r) /\ ~FlagDisabled(r)) => Response(r).code # CodeGroupNotAllowed

C2_Witness ==
    \E r \in Reqs, q \in Reqs :
        /\ FlagDisabled(r) /\ pc[r] = "done"
        /\ Success(q)

(***************************************************************************)
(* C3 as stated.  In the state right after a successful Archive returns,   *)
(* the token in the returned URL has at least 16 runes and the cache maps  *)
(* the key of that token ("archive_" + token) to the archive this call's   *)
(* compress produced.                                                      *)
(***************************************************************************)
C3_SuccessBindsToken ==
    [][\A r \in Reqs :
        (resp[r] = Nil /\ resp'[r] # Nil /\ resp'[r][1].code = CodeOK) =>
            LET token == TokenOf(resp'[r][1].data[1])
            IN  /\ Len(token) >= 16
                /\ zipFile'[r] = ZipFileOf(r)
                /\ ArchiveLookup(cache', token) = <<ZipFileOf(r)>>]_vars

(***************************************************************************)
(* C3 amended.  The token of a successful Archive has at least 16 runes    *)
(* and is bound to the call's own archive in the state right after the     *)
(* call's cache.Set; it is still so bound when the call returns provided   *)
(* the entry has not expired by then and no other request that wrote the   *)
(* cache drew the same token.                                              *)
(***************************************************************************)
C3_BoundAtWriteAndReturn ==
    [][\A r \in Reqs :
        /\ (~Wrote(r) /\ Wrote(r)') =>
                /\ Len(zipID'[r]) >= 16
                /\ TokenOf(finalURL'[r][1]) = zipID'[r]
                /\ zipFile'[r] = ZipFileOf(r)
                /\ ArchiveLookup(cache', zipID'[r]) = <<ZipFileOf(r)>>
        /\ (resp[r] = Nil /\ resp'[r] # Nil /\ resp'[r][1].code = CodeOK) =>
                LET token == TokenOf(resp'[r][1].data[1])
                IN  /\ Len(token) >= 16
                    /\ Wrote(r)'
                    /\ (EntryLive(r)' /\ TokenUnshared(r)') =>
                            ArchiveLookup(cache', token) = <<ZipFileOf(r)>>]_vars

C3_Witness ==
    \E r \in Reqs, q \in Reqs :
        /\ r # q /\ Wrote(q) /\ pc[q] = "return" /\ zipID[q] # zipID[r]
        /\ Success(r)
        /\ Len(DeliveredToken(r)) = TokenLen
        /\ Resolves(r)

(***************************************************************************)
(* C4.  If the cache write fails after compression succeeded, Archive      *)
(* returns a non-zero code and no URL; a URL is returned only by a request *)
(* that bound its token in the cache.                                      *)
(***************************************************************************)
C4_CacheFailureFailsClosed ==
    \A r \in Reqs :
        /\ CacheWriteFailed(r) => (Failed(r) /\ Response(r).data = Nil)
        /\ (Returned(r) /\ Response(r).data # Nil) =>
                (wroteAt[r] >= 0 /\ zipFile[r] # "")

C4_Witness ==
    \E r \in Reqs : CacheWriteFailed(r) /\ zipFile[r] = ZipFileOf(r)

(***************************************************************************)
(* C5.  Archive never reports partial success: once it has ended it has    *)
(* returned a Response, code 0 only if compression, signing and the cache  *)
(* binding all succeeded, a non-zero code if any of them failed (a signing *)
(* error in particular).  The handler drops the error of auth.SignURI and  *)
(* dereferences the nil URI, so it ends without any Response.              *)
(***************************************************************************)
C5_NoPartialSuccess ==
    \A r \in Reqs :
        /\ Success(r) => (zipFile[r] # "" /\ finalURL[r] # Nil /\ wroteAt[r] >= 0)
        /\ (CompressFailed(r) \/ UrlFailed(r) \/ SignFailed(r) \/ CacheWriteFailed(r))
                => Failed(r)

(***************************************************************************)
(* C6 as stated.  Once the request's context is cancelled (at any step     *)
(* before the cache write) the request writes no cache entry, issues no    *)
(* URL and returns none.                                                   *)
(***************************************************************************)
C6_CancelAbortsAlways ==
    \A r \in Reqs :
        /\ cancelledAt[r] \in {"compress", "sign", "cache"} =>
                (wroteAt[r] = -1 /\ ~Success(r))
        /\ cancelledAt[r] \in {"compress", "sign"} => finalURL[r] = Nil

(***************************************************************************)
(* C6 amended.  Archive hands the context to compress and never reads it   *)
(* again: a request cancelled before compress runs, whose delegate honours *)
(* the context, ends with the compression failure, nothing signed, no      *)
(* cache entry written and no URL returned.                                *)
(***************************************************************************)
C6_CancelBeforeCompressAborts ==
    \A r \in Reqs :
        cancelledAt[r] = "compress" =>
            /\ pc[r] \in {"compress", "done"}
            /\ zipFile[r] = "" /\ zipID[r] = "" /\ finalURL[r] = Nil
            /\ wroteAt[r] = -1
            /\ pc[r] = "done" => resp[r] = <<Err(CodeNotSet, MsgCompressFailed)>>

C6_Witness ==
    \E r \in Reqs : cancelledAt[r] = "compress" /\ pc[r] = "done" /\ Len(calls[r]) = 1

(***************************************************************************)
(* C7 as stated.  A malformed site URL is reported with the code of a file *)
(* system construction failure, which differs from the code of a           *)
(* compression failure.                                                    *)
(***************************************************************************)
C7_SiteURLIsConfigurationError ==
    \A r \in Reqs :
        UrlFailed(r) =>
            /\ Response(r).code = CodePolicyNotAllowed
            /\ Response(r).code # CodeNotSet

(***************************************************************************)
(* C7 amended.  A malformed site URL is reported with CodeNotSet, the code *)
(* of a compression failure, and not with the CodePolicyNotAllowed of a    *)
(* file system construction failure; only the message tells a URL failure  *)
(* from a compression failure.                                             *)
(***************************************************************************)
C7_SiteURLSharesCompressCode ==
    \A r \in Reqs :
        /\ UrlFailed(r) => resp[r] = <<Err(CodeNotSet, MsgSiteURL)>>
        /\ CompressFailed(r) => resp[r] = <<Err(CodeNotSet, MsgCompressFailed)>>
        /\ FsFailed(r) => (Failed(r) /\ Response(r).code = CodePolicyNotAllowed)
        /\ \A q \in Reqs :
            (UrlFailed(r) /\ CompressFailed(q)) =>
                /\ Response(r).code = Response(q).code
                /\ Response(r).msg # Response(q).msg
        /\ \A q \in Reqs :
            (UrlFailed(r) /\ FsFailed(q)) => Response(r).code # Response(q).code

C7_Witness ==
    \E r \in Reqs, q \in Reqs : UrlFailed(r) /\ CompressFailed(q)

(***************************************************************************)
(* C8 as stated.  For every non-empty selection Move and Delete call the   *)
(* delegate exactly once with the request's dirs and items (and paths)     *)
(* unchanged; the Response is code 0 with empty data when the delegate     *)
(* succeeds and the operation-failed code with the delegate's message when *)
(* it fails.                                                               *)
(***************************************************************************)
C8_Selection == IF last.op = "Move" THEN last.request[1].Src ELSE last.request[1]

C8_ExpectedCall ==
    IF last.op = "Move"
    THEN [op |-> "Move", dirs |-> last.request[1].Src.Dirs,
          items |-> last.request[1].Src.Items,
          src |-> last.request[1].SrcDir, dst |-> last.request[1].Dst]
    ELSE [op |-> "Delete", dirs |-> last.request[1].Dirs, items |-> last.request[1].Items]

C8_Forwarded ==
    /\ last.calls = <<C8_ExpectedCall>>
    /\ last.delegateErr = Nil =>
            (last.resp[1].code = 0 /\ last.resp[1].data = Nil)
    /\ last.delegateErr # Nil =>
            /\ last.resp[1].code = CodeNotSet /\ last.resp[1].code # 0
            /\ last.resp[1].msg = last.delegateErr[1]

C8_ForwardsAlways ==
    (BatchHandled /\ last.op \in {"Move", "Delete"} /\ Count(C8_Selection) > 0)
        => C8_Forwarded

(***************************************************************************)
(* C8 amended.  The same, provided the file system context is constructed; *)
(* when NewFileSystemFromContext fails the delegate is not called and the  *)
(* Response carries CodePolicyNotAllowed and that error's message.         *)
(***************************************************************************)
C8_ForwardsWhenFileSystemBuilt ==
    (BatchHandled /\ last.op \in {"Move", "Delete"} /\ Count(C8_Selection) > 0)
        => IF last.fsErr = Nil
           THEN C8_Forwarded
           ELSE /\ last.calls = << >>
                /\ last.resp = <<Err(CodePolicyNotAllowed, last.fsErr[1])>>

C8_Witness ==
    /\ BatchHandled /\ last.op = "Move"
    /\ last.request[1].Src.Dirs = <<2, 1>> /\ last.request[1].Src.Items = <<1>>
    /\ last.request[1].SrcDir # last.request[1].Dst
    /\ last.delegateErr # Nil
    /\ Len(last.calls) = 1

(***************************************************************************)
(* C9 as stated.  Whatever the interleaving of Archive requests, a         *)
(* delivered URL resolves through the cache to its own request's archive   *)
(* for as long as the entry the request wrote is live.                     *)
(***************************************************************************)
C9_DeliveredURLKeepsResolving ==
    \A r \in Reqs : EntryLive(r) => Resolves(r)

(***************************************************************************)
(* C9 amended.  The same, provided no other request that wrote the cache   *)
(* drew the same token: the write is unconditional, so of two requests     *)
(* with one token the later write replaces the earlier binding.            *)
(***************************************************************************)
C9_ResolvesUnlessTokenShared ==
    \A r \in Reqs :
        (EntryLive(r) /\ TokenUnshared(r))
            => (Resolves(r) /\ zipFile[r] = ZipFileOf(r))

C9_Witness ==
    \E r \in Reqs, q \in Reqs :
        /\ r # q /\ zipID[r] # zipID[q]
        /\ EntryLive(r) /\ EntryLive(q)
        /\ wroteAt[r] < wroteAt[q]
        /\ now > wroteAt[q]
        /\ Resolves(r) /\ Resolves(q)

(***************************************************************************)
(* C10.  The expiry of a delivered URL (clock at signing + 30) is never    *)
(* later than the expiry of its cache entry (clock at the cache write +    *)
(* 30), so while the URL has not expired the entry of its token is present.*)
(***************************************************************************)
C10_EntryOutlivesURL ==
    \A r \in Reqs :
        Success(r) =>
            /\ UrlExpiry(r) * Resolution <= wroteAt[r] + CacheTTL * Resolution
            /\ UrlLive(r) =>
                /\ EntryLive(r)
                /\ ArchiveLookup(cache, DeliveredToken(r)) # Nil

C10_Witness ==
    \E r \in Reqs :
        /\ UrlLive(r)
        /\ UrlExpiry(r) * Resolution < wroteAt[r] + CacheTTL * Resolution
        /\ wroteAt[r] < now
        /\ Resolves(r)

====
